---- MODULE Spec2Model ----
(***************************************************************************)
(* Model of streamlit_novelty.py: the results viewer.  One run of the      *)
(* script (one page render) is one action; the results directory, the      *)
(* results.json file and Streamlit's st.cache_data entries are the state   *)
(* that outlives a run.  Spec lets the directory, results.json and the     *)
(* cache change between runs; SpecStatic runs the script over every        *)
(* directory and payload of a larger input set that stays as it is.        *)
(*                                                                         *)
(* File names are sequences of tokens.  The tokens are the two letters     *)
(* "a" and "b" and the three suffixes the script knows; a name is the      *)
(* concatenation of its tokens.  No token is a prefix of another, and no   *)
(* suffix token occurs inside a concatenation of tokens except as a token, *)
(* so str.replace, str.endswith, string equality and the lexicographic     *)
(* order of Python strings are exactly their token-wise counterparts.      *)
(***************************************************************************)
EXTENDS Integers, Sequences, FiniteSets, TLC

VARIABLES dir_exists, files, json, cache_results, cache_files,
          results_data, available_files, selected_file, file_result,
          img_path, model_path, page, io

env    == <<dir_exists, files, json>>
caches == <<cache_results, cache_files>>
run    == <<results_data, available_files, selected_file, file_result,
            img_path, model_path, page, io>>
vars   == <<dir_exists, files, json, cache_results, cache_files,
            results_data, available_files, selected_file, file_result,
            img_path, model_path, page, io>>

(* ---------------------------------------------------------------------- *)
(* Bounds                                                                   *)
(* ---------------------------------------------------------------------- *)
MaxFiles      == 2   \* directory entries, static environment
MaxResults    == 2   \* length of payload.results, static environment
DynMaxFiles   == 2   \* directory entries, changing environment
DynMaxResults == 1   \* length of payload.results, changing environment

(* ---------------------------------------------------------------------- *)
(* Strings                                                                  *)
(* ---------------------------------------------------------------------- *)
TXT == ".txt"
VIS == "_visualization.png"
PTH == "_model.pth"

\* code-point order of the first distinguishing character:
\* '.' (46) < '_' (95) < 'a' (97) < 'b' (98), and "_m" < "_v"
TokRank(t) == CASE t = TXT -> 1
                [] t = PTH -> 2
                [] t = VIS -> 3
                [] t = "a" -> 4
                [] t = "b" -> 5

\* Python's s < t on strings
RECURSIVE StrLess(_, _)
StrLess(s, t) ==
    IF s = <<>> THEN t # <<>>
    ELSE IF t = <<>> THEN FALSE
    ELSE IF Head(s) = Head(t) THEN StrLess(Tail(s), Tail(t))
    ELSE TokRank(Head(s)) < TokRank(Head(t))

\* s.endswith(suffix)
endswith(s, suffix) == s # <<>> /\ s[Len(s)] = suffix

\* s.replace(old, new): every occurrence of old is replaced, left to right;
\* new is a string (a token sequence, empty for "")
RECURSIVE replace(_, _, _)
replace(s, old, new) ==
    IF s = <<>> THEN <<>>
    ELSE (IF Head(s) = old THEN new ELSE <<Head(s)>>) \o replace(Tail(s), old, new)

\* os.path.basename(os.path.join(save_dir, name)) = name: paths are kept
\* relative to the results directory

\* Python's None
None == [py |-> "None"]

\* truth value of a dict or None: None and {} are false
Truthy(d) == d # None /\ DOMAIN d # {}

\* d.get(key, default)
Get(d, key, default) == IF key \in DOMAIN d THEN d[key] ELSE default

(* ---------------------------------------------------------------------- *)
(* Environment: the results directory and results.json                      *)
(* ---------------------------------------------------------------------- *)
RESULTS_JSON == <<"results.json">>

json_missing   == [kind |-> "missing"]
json_malformed == [kind |-> "malformed"]
json_ok(d)     == [kind |-> "ok", data |-> d]

\* os.listdir(save_dir): the entries of the directory, in no particular order
RECURSIVE listdir_order(_)
listdir_order(S) ==
    IF S = {} THEN <<>>
    ELSE LET f == CHOOSE x \in S : TRUE
         IN <<f>> \o listdir_order(S \ {f})
listdir(fs, js) ==
    listdir_order(fs \cup (IF js.kind = "missing" THEN {} ELSE {RESULTS_JSON}))

(* ---------------------------------------------------------------------- *)
(* sorted()                                                                 *)
(* ---------------------------------------------------------------------- *)
RECURSIVE insert(_, _)
insert(x, s) ==
    IF s = <<>> THEN <<x>>
    ELSE IF StrLess(x, Head(s)) THEN <<x>> \o s
    ELSE <<Head(s)>> \o insert(x, Tail(s))
RECURSIVE sorted(_)
sorted(s) == IF s = <<>> THEN <<>> ELSE insert(Head(s), sorted(Tail(s)))

(* ---------------------------------------------------------------------- *)
(* get_available_files: the body, without the cache                         *)
(* ---------------------------------------------------------------------- *)
RECURSIVE scan(_)
scan(entries) ==
    IF entries = <<>> THEN <<>>
    ELSE LET file == Head(entries)
         IN (IF endswith(file, VIS)
             THEN <<replace(file, VIS, <<>>) \o <<TXT>>>>
             ELSE <<>>) \o scan(Tail(entries))
get_available_files(exists, fs, js) ==
    IF ~exists THEN <<>> ELSE sorted(scan(listdir(fs, js)))

(* ---------------------------------------------------------------------- *)
(* load_image: the path it looks up                                         *)
(* ---------------------------------------------------------------------- *)
image_path(filename) == replace(filename, TXT, <<VIS>>)
checkpoint_path(filename) == replace(filename, TXT, <<PTH>>)

(* ---------------------------------------------------------------------- *)
(* load_results: the body, without the cache                                *)
(* ---------------------------------------------------------------------- *)
\* value: what is returned; raised: json.load raised; ops: the file
\* operations performed
load_results(js) ==
    IF js.kind = "missing"
    THEN [value |-> None, raised |-> FALSE, ops |-> <<"exists results.json">>]
    ELSE IF js.kind = "malformed"
    THEN [value |-> None, raised |-> TRUE,
          ops |-> <<"exists results.json", "open results.json">>]
    ELSE [value |-> js.data, raised |-> FALSE,
          ops |-> <<"exists results.json", "open results.json">>]

(* ---------------------------------------------------------------------- *)
(* Formatting.  A float is the rational num/den it holds; a formatted      *)
(* string is the sequence of its characters.                               *)
(* ---------------------------------------------------------------------- *)
Rat(n, d) == [num |-> n, den |-> d]

DigitChar(d) == <<"0", "1", "2", "3", "4", "5", "6", "7", "8", "9">>[d + 1]

RECURSIVE Pow10(_)
Pow10(k) == IF k = 0 THEN 1 ELSE 10 * Pow10(k - 1)

\* str(n) for an integer n >= 0
RECURSIVE str_int(_)
str_int(n) ==
    IF n < 10 THEN <<DigitChar(n)>>
    ELSE str_int(n \div 10) \o <<DigitChar(n % 10)>>

\* the k low decimal digits of n, zero-padded
RECURSIVE digits(_, _)
digits(n, k) ==
    IF k = 0 THEN <<>> ELSE digits(n \div 10, k - 1) \o <<DigitChar(n % 10)>>

\* long division: <<floor(v * 10^k), remainder>>
RECURSIVE scaled(_, _)
scaled(v, k) ==
    IF k = 0 THEN <<v.num \div v.den, v.num % v.den>>
    ELSE LET p == scaled(v, k - 1)
         IN <<p[1] * 10 + (p[2] * 10) \div v.den, (p[2] * 10) % v.den>>

\* (variant: the digits are cut off instead of rounded)
rounded_truncating(v, k) == scaled(v, k)[1]

\* v * 10^k rounded to the nearest integer, ties to even (the value of the
\* float is exact, so this is what the correctly rounded "%.kf" prints)
rounded(v, k) ==
    LET p == scaled(v, k)
    IN p[1] + (IF 2 * p[2] > v.den \/ (2 * p[2] = v.den /\ p[1] % 2 = 1)
               THEN 1 ELSE 0)

\* f"{v:.kf}"
format_f(v, k) ==
    LET n == rounded(v, k)
    IN str_int(n \div Pow10(k)) \o <<".">> \o digits(n % Pow10(k), k)

\* f"{threshold}th"
format_th(threshold) == str_int(threshold) \o <<"t", "h">>

\* display_metrics: the five st.metric cards
display_metrics(precision, recall, f1, num_anomalies, threshold) ==
    [Precision |-> format_f(precision, 4),
     Recall    |-> format_f(recall, 4),
     F1Score   |-> format_f(f1, 4),
     DetectedAnomalies |-> num_anomalies,
     BestThreshold |-> format_th(threshold)]

\* the "Additional Details" panel
PERCENTILE == <<" ", "p", "e", "r", "c", "e", "n", "t", "i", "l", "e">>
additional_details(r) ==
    [Precision |-> format_f(r.precision, 6),
     Recall    |-> format_f(r.recall, 6),
     F1Score   |-> format_f(r.f1, 6),
     BestThreshold |-> format_th(r.best_threshold) \o PERCENTILE]

(* ---------------------------------------------------------------------- *)
(* Record lookup                                                            *)
(* ---------------------------------------------------------------------- *)
\* (variant: the last matching entry wins, as a dict built from the list would)
RECURSIVE next_match_last(_, _)
next_match_last(results, selected) ==
    IF results = <<>> THEN None
    ELSE IF results[Len(results)].file = selected THEN results[Len(results)]
    ELSE next_match_last(SubSeq(results, 1, Len(results) - 1), selected)

\* next((r for r in results if r['file'] == selected), None)
RECURSIVE next_match(_, _)
next_match(results, selected) ==
    IF results = <<>> THEN None
    ELSE IF Head(results).file = selected THEN Head(results)
    ELSE next_match(Tail(results), selected)

\* lines 144-146
find_result(rd, selected) ==
    IF Truthy(rd) /\ "results" \in DOMAIN rd
    THEN next_match(rd.results, selected)
    ELSE None

(* ---------------------------------------------------------------------- *)
(* Inputs: directory contents and results.json payloads                     *)
(* ---------------------------------------------------------------------- *)
BoundedSeq(S, n) == UNION {[1..k -> S] : k \in 0..n}
BoundedSubsets(S, n) == {T \in SUBSET S : Cardinality(T) <= n}

StaticNames == {<<"a", VIS>>, <<"b", VIS>>, <<"a", VIS, VIS>>, <<"a", TXT, VIS>>,
                <<"a", PTH>>, <<"b", PTH>>, <<"a", TXT, PTH>>}
DynNames    == {<<"a", VIS>>, <<"b", VIS>>, <<"a", PTH>>}

\* metric values of a record; the last one has no 'num_anomalies' key
Template1 == [precision |-> Rat(9, 10), recall |-> Rat(4, 5), f1 |-> Rat(17, 20),
              best_threshold |-> 90, num_anomalies |-> 5]
Template2 == [precision |-> Rat(123456, 1000000), recall |-> Rat(1, 2),
              f1 |-> Rat(999995, 1000000),
              best_threshold |-> 95, num_anomalies |-> 3]
Template3 == [precision |-> Rat(1, 32), recall |-> Rat(3, 32), f1 |-> Rat(1, 128),
              best_threshold |-> 0]
Template4 == [precision |-> Rat(0, 1), recall |-> Rat(1, 1), f1 |-> Rat(3, 128),
              best_threshold |-> 100, num_anomalies |-> 0]
Template5 == [precision |-> Rat(1, 3), recall |-> Rat(2, 3), f1 |-> Rat(4, 9),
              best_threshold |-> 7]
Templates == {Template1, Template2, Template3, Template4, Template5}

FileResult(file, t) == [file |-> file] @@ t

StaticRecords == {FileResult(<<n, TXT>>, t) : n \in {"a", "b"}, t \in Templates}
DynRecords    == {FileResult(<<"a", TXT>>, Template1),
                  FileResult(<<"b", TXT>>, Template2)}

CONFIG == [num_epochs |-> 10]

\* the parsed top-level object: 'config' and 'results' are both optional
Payloads(recs, n) ==
    {<<>>, [config |-> CONFIG]}
    \cup {[results |-> r] : r \in BoundedSeq(recs, n)}
    \cup {[config |-> CONFIG, results |-> r] : r \in BoundedSeq(recs, n)}

JsonStates(recs, n) ==
    {json_missing, json_malformed} \cup {json_ok(d) : d \in Payloads(recs, n)}

EnvStates(names, maxFiles, recs, maxResults) ==
    {[exists |-> FALSE, files |-> {}, json |-> json_missing]}
    \cup {[exists |-> TRUE, files |-> F, json |-> j] :
             F \in BoundedSubsets(names, maxFiles),
             j \in JsonStates(recs, maxResults)}

StaticEnv == EnvStates(StaticNames, MaxFiles, StaticRecords, MaxResults)
DynEnv    == EnvStates(DynNames, DynMaxFiles, DynRecords, DynMaxResults)

(* ---------------------------------------------------------------------- *)
(* The page                                                                 *)
(* ---------------------------------------------------------------------- *)
BlankPage == [screen |-> "blank", sidebar |-> None, selector |-> None,
              metrics |-> None, details |-> None, ckpt_notice |-> None,
              image |-> "none", no_files_warning |-> FALSE]

InitWith(E) ==
    /\ \E e \in E : /\ dir_exists = e.exists
                    /\ files = e.files
                    /\ json = e.json
    /\ cache_results = <<>>
    /\ cache_files = <<>>
    /\ results_data = None
    /\ available_files = <<>>
    /\ selected_file = <<>>
    /\ file_result = None
    /\ img_path = <<>>
    /\ model_path = <<>>
    /\ page = BlankPage
    /\ io = <<>>

Init == InitWith(DynEnv)
InitStatic == InitWith(StaticEnv)

(* ---------------------------------------------------------------------- *)
(* st.cache_data: the two cached functions, keyed by save_dir (always       *)
(* SAVE_DIR).  A cache is <<>> (no entry) or <<v>> (the stored return       *)
(* value); a call that raises stores nothing.                               *)
(* ---------------------------------------------------------------------- *)
call_load_results ==
    IF cache_results # <<>>
    THEN [value |-> cache_results[1], raised |-> FALSE, ops |-> <<>>]
    ELSE load_results(json)

\* (variant: the decorator is missing, every call scans again)
call_get_available_files_uncached ==
    [value |-> get_available_files(dir_exists, files, json),
     ops |-> <<"exists dir", "listdir">>]

call_get_available_files ==
    IF cache_files # <<>>
    THEN [value |-> cache_files[1], ops |-> <<>>]
    ELSE [value |-> get_available_files(dir_exists, files, json),
          ops |-> <<"exists dir", "listdir">>]

\* os.path.exists(os.path.join(SAVE_DIR, path))
exists(path, fs) == path \in fs

\* lines 148-157: the metric cards, only for a matched record
metrics_section(fr) ==
    IF Truthy(fr)
    THEN display_metrics(fr.precision, fr.recall, fr.f1,
                         Get(fr, "num_anomalies", 0), fr.best_threshold)
    ELSE None

\* lines 148, 161-169: the detail panel, only for a matched record
details_section(fr) == IF Truthy(fr) THEN additional_details(fr) ELSE None

\* lines 148, 171-174: the checkpoint notice, inside the matched-record branch
checkpoint_notice(fr, sel, fs) ==
    IF Truthy(fr) /\ exists(checkpoint_path(sel), fs)
    THEN [basename |-> checkpoint_path(sel)]
    ELSE None

\* (variant: the visualization is indented into the matched-record branch)
image_section_nested(fr, sel, fs) ==
    IF ~Truthy(fr) THEN "none"
    ELSE IF exists(image_path(sel), fs) THEN "shown" ELSE "not_found"
\* lines 178-184: the visualization, whatever the match
image_section(fr, sel, fs) ==
    IF exists(image_path(sel), fs) THEN "shown" ELSE "not_found"

\* the sidebar, lines 113-128
sidebar(rd, af) ==
    [config_shown |-> Truthy(rd) /\ "config" \in DOMAIN rd,
     total_files |-> Len(af)]

(* ---------------------------------------------------------------------- *)
(* One run of the script, by the way it ends                                *)
(* ---------------------------------------------------------------------- *)
\* (variant: st.stop() is missing and the script runs on to the loads)
RenderSetup_no_stop ==
    /\ ~dir_exists
    /\ io' = <<"exists dir">> \o call_load_results.ops
                              \o call_get_available_files.ops
    /\ page' = [BlankPage EXCEPT !.screen = "setup"]
    /\ results_data' = call_load_results.value
    /\ available_files' = call_get_available_files.value
    /\ selected_file' = <<>>
    /\ file_result' = None
    /\ img_path' = <<>>
    /\ model_path' = <<>>
    /\ UNCHANGED <<env, caches>>

\* lines 94-102: the results directory is missing
RenderSetup ==
    /\ ~dir_exists
    /\ io' = <<"exists dir">>
    /\ page' = [BlankPage EXCEPT !.screen = "setup"]
    /\ results_data' = None
    /\ available_files' = <<>>
    /\ selected_file' = <<>>
    /\ file_result' = None
    /\ img_path' = <<>>
    /\ model_path' = <<>>
    /\ UNCHANGED <<env, caches>>

\* line 105: json.load raises, nothing catches it
RenderException ==
    /\ dir_exists
    /\ call_load_results.raised
    /\ io' = <<"exists dir">> \o call_load_results.ops
    /\ page' = [BlankPage EXCEPT !.screen = "exception"]
    /\ results_data' = None
    /\ available_files' = <<>>
    /\ selected_file' = <<>>
    /\ file_result' = None
    /\ img_path' = <<>>
    /\ model_path' = <<>>
    /\ UNCHANGED <<env, caches>>

\* lines 105-110: nothing to show
RenderNoResults ==
    /\ dir_exists
    /\ ~call_load_results.raised
    /\ LET rd == call_load_results.value
           af == call_get_available_files.value
       IN /\ af = <<>> /\ ~Truthy(rd)
          /\ cache_results' = <<rd>>
          /\ cache_files' = <<af>>
          /\ results_data' = rd
          /\ available_files' = af
          /\ io' = <<"exists dir">> \o call_load_results.ops
                                    \o call_get_available_files.ops
          /\ page' = [BlankPage EXCEPT !.screen = "no_results"]
    /\ selected_file' = <<>>
    /\ file_result' = None
    /\ img_path' = <<>>
    /\ model_path' = <<>>
    /\ UNCHANGED env

\* lines 105-128, 185-186: a payload but no catalog entry
RenderNoFiles ==
    /\ dir_exists
    /\ ~call_load_results.raised
    /\ LET rd == call_load_results.value
           af == call_get_available_files.value
       IN /\ af = <<>> /\ Truthy(rd)
          /\ cache_results' = <<rd>>
          /\ cache_files' = <<af>>
          /\ results_data' = rd
          /\ available_files' = af
          /\ io' = <<"exists dir">> \o call_load_results.ops
                                    \o call_get_available_files.ops
          /\ page' = [BlankPage EXCEPT !.screen = "main",
                                       !.sidebar = sidebar(rd, af),
                                       !.no_files_warning = TRUE]
    /\ selected_file' = <<>>
    /\ file_result' = None
    /\ img_path' = <<>>
    /\ model_path' = <<>>
    /\ UNCHANGED env

\* lines 105-186: the i-th catalog entry is the selection
RenderFile(i) ==
    /\ dir_exists
    /\ ~call_load_results.raised
    /\ LET rd  == call_load_results.value
           af  == call_get_available_files.value
       IN /\ i \in 1..Len(af)
          /\ LET sel == af[i]
                 fr  == find_result(rd, sel)
                 mp  == IF Truthy(fr) THEN checkpoint_path(sel) ELSE <<>>
                 ip  == image_path(sel)
             IN /\ cache_results' = <<rd>>
                /\ cache_files' = <<af>>
                /\ results_data' = rd
                /\ available_files' = af
                /\ selected_file' = sel
                /\ file_result' = fr
                /\ model_path' = mp
                /\ img_path' = ip
                /\ io' = <<"exists dir">> \o call_load_results.ops
                            \o call_get_available_files.ops
                            \o (IF Truthy(fr) THEN <<"exists checkpoint">> ELSE <<>>)
                            \o <<"exists image">>
                            \o (IF exists(ip, files) THEN <<"open image">> ELSE <<>>)
                /\ page' =
                     [screen  |-> "main",
                      sidebar |-> sidebar(rd, af),
                      selector |-> [options |-> af, selected |-> sel],
                      metrics |-> metrics_section(fr),
                      details |-> details_section(fr),
                      ckpt_notice |-> checkpoint_notice(fr, sel, files),
                      image |-> image_section(fr, sel, files),
                      no_files_warning |-> FALSE]
    /\ UNCHANGED env

(* ---------------------------------------------------------------------- *)
(* The world outside the script                                             *)
(* ---------------------------------------------------------------------- *)
CreateFile(f) ==
    /\ dir_exists
    /\ f \notin files
    /\ Cardinality(files) < DynMaxFiles
    /\ files' = files \cup {f}
    /\ UNCHANGED <<dir_exists, json, caches, run>>

DeleteFile(f) ==
    /\ f \in files
    /\ files' = files \ {f}
    /\ UNCHANGED <<dir_exists, json, caches, run>>

WriteResults(j) ==
    /\ dir_exists
    /\ j.kind # "missing"
    /\ j # json
    /\ json' = j
    /\ UNCHANGED <<dir_exists, files, caches, run>>

DeleteResults ==
    /\ json.kind # "missing"
    /\ json' = json_missing
    /\ UNCHANGED <<dir_exists, files, caches, run>>

RemoveDir ==
    /\ dir_exists
    /\ dir_exists' = FALSE
    /\ files' = {}
    /\ json' = json_missing
    /\ UNCHANGED <<caches, run>>

CreateDir ==
    /\ ~dir_exists
    /\ dir_exists' = TRUE
    /\ UNCHANGED <<files, json, caches, run>>

\* st.cache_data.clear(), the "Clear cache" menu entry, or an edit of the source
ClearCache ==
    /\ cache_results # <<>> \/ cache_files # <<>>
    /\ cache_results' = <<>>
    /\ cache_files' = <<>>
    /\ UNCHANGED <<env, run>>

Next ==
    \/ RenderSetup
    \/ RenderException
    \/ RenderNoResults
    \/ RenderNoFiles
    \/ \E i \in DOMAIN call_get_available_files.value : RenderFile(i)
    \/ \E f \in DynNames : CreateFile(f)
    \/ \E f \in DynNames : DeleteFile(f)
    \/ \E j \in JsonStates(DynRecords, DynMaxResults) : WriteResults(j)
    \/ DeleteResults
    \/ RemoveDir
    \/ CreateDir
    \/ ClearCache

Spec == Init /\ [][Next]_vars

\* a static environment: only renders happen
NextStatic ==
    \/ RenderSetup
    \/ RenderException
    \/ RenderNoResults
    \/ RenderNoFiles
    \/ \E i \in DOMAIN call_get_available_files.value : RenderFile(i)

SpecStatic == InitStatic /\ [][NextStatic]_vars

(* ---------------------------------------------------------------------- *)
(* Properties                                                               *)
(* ---------------------------------------------------------------------- *)
Front(s) == SubSeq(s, 1, Len(s) - 1)
Selected == page.screen = "main" /\ selected_file # <<>>

\* the entries of payload.results, empty when the payload is unset or has
\* no 'results' key
ResultsOf(rd) == IF rd # None /\ "results" \in DOMAIN rd THEN rd.results ELSE <<>>
Matches(rd, x) == {k \in DOMAIN ResultsOf(rd) : ResultsOf(rd)[k].file = x}

\* C1: the catalog is in ascending lexicographic order and holds no entry
\* twice.
C1_CatalogSortedNoDuplicates ==
    \A i, j \in DOMAIN available_files :
        i < j => StrLess(available_files[i], available_files[j])

\* C2: every catalog entry's image path (load_image's derivation) names a
\* file of the directory at the time of the scan.
C2_NoDanglingEntry ==
    \A i \in DOMAIN available_files : image_path(available_files[i]) \in files

\* C3: the matched record is the first entry of payload.results whose file
\* equals the selection, None when there is none (payload unset, no 'results'
\* key, no such entry), and the displayed metrics are those of that entry.
C3_FirstMatch ==
    Selected =>
        LET rs == ResultsOf(results_data)
            M  == Matches(results_data, selected_file)
        IN IF M = {}
           THEN file_result = None /\ page.metrics = None /\ page.details = None
           ELSE LET k == CHOOSE k \in M : \A j \in M : k <= j
                IN /\ file_result = rs[k]
                   /\ page.metrics = metrics_section(rs[k])
                   /\ page.details = details_section(rs[k])

C3_Witness ==
    /\ Selected
    /\ Len(ResultsOf(results_data)) = 2
    /\ Matches(results_data, selected_file) = {1, 2}
    /\ ResultsOf(results_data)[1] # ResultsOf(results_data)[2]
    /\ file_result = ResultsOf(results_data)[1]
    /\ page.metrics # metrics_section(ResultsOf(results_data)[2])

\* C4: no render ends in an exception, whatever results.json holds.
C4_NeverAnException == page.screen # "exception"

\* C5: the checkpoint notice is displayed exactly when <name>_model.pth
\* exists, whether or not a record matched the selection <name>.txt.
C5_NoticeIffCheckpointExists ==
    Selected =>
        ((page.ckpt_notice # None) <=> (Front(selected_file) \o <<PTH>> \in files))

\* C6: for the catalog entry n.txt the image path is n_visualization.png and
\* the checkpoint path n_model.pth: only the trailing .txt is replaced.
C6_PathRoundTrip ==
    Selected =>
        /\ img_path = Front(selected_file) \o <<VIS>>
        /\ model_path # <<>> => model_path = Front(selected_file) \o <<PTH>>

\* C7: a render that starts with the results directory missing shows the
\* setup instructions and stops: the only file operation is the directory
\* check, and no sidebar, selector, metrics, notice or image is displayed.
C7_MissingDirStops ==
    [][(~dir_exists /\ run' # run) =>
          /\ page'.screen = "setup"
          /\ io' = <<"exists dir">>
          /\ page'.sidebar = None /\ page'.selector = None
          /\ page'.metrics = None /\ page'.details = None
          /\ page'.ckpt_notice = None /\ page'.image = "none"
          /\ caches' = caches]_vars

C7_Witness ==
    /\ ~dir_exists
    /\ page.screen = "setup"
    /\ cache_results # <<>> /\ cache_files # <<>> /\ cache_files[1] # <<>>

\* C8: once both snapshots are cached, a step either invalidates the cache
\* or leaves both snapshots as they are, and a render that gets past the
\* loads uses exactly them, without reading results.json or listing the
\* directory, whatever the directory holds by then.
C8_CachedSnapshotsReused ==
    [][(cache_results # <<>> /\ cache_files # <<>>) =>
          \/ cache_results' = <<>> /\ cache_files' = <<>>
          \/ /\ caches' = caches
             /\ (run' # run /\ page'.screen \in {"main", "no_results"}) =>
                   /\ results_data' = cache_results[1]
                   /\ available_files' = cache_files[1]
                   /\ \A k \in DOMAIN io' :
                         io'[k] \notin {"listdir", "exists results.json",
                                        "open results.json"}]_vars

\* a render has just used a catalog and a payload that the directory no
\* longer yields
C8_Witness ==
    /\ Selected
    /\ dir_exists
    /\ \A k \in DOMAIN io : io[k] # "listdir"
    /\ cache_files = <<available_files>>
    /\ cache_results = <<results_data>>
    /\ available_files # get_available_files(dir_exists, files, json)
    /\ json.kind = "ok" /\ json.data # results_data

\* C9: a selection without a matching record still has its catalog derived
\* from the directory; the metrics are omitted and the visualization is
\* attempted: shown if the file load_image looks up exists, the not-found
\* notice otherwise.
C9_NoMatchStillShowsImage ==
    (Selected /\ Matches(results_data, selected_file) = {}) =>
        /\ page.selector = [options |-> available_files, selected |-> selected_file]
        /\ \A i \in DOMAIN available_files :
              \E f \in files : /\ endswith(f, VIS)
                               /\ available_files[i] = replace(f, VIS, <<>>) \o <<TXT>>
        /\ page.metrics = None /\ page.details = None
        /\ \E k \in DOMAIN io : io[k] = "exists image"
        /\ img_path \in files    => page.image = "shown"
        /\ img_path \notin files => page.image = "not_found"

C9_Witness ==
    /\ Selected
    /\ json.kind = "ok" /\ json.data = [config |-> CONFIG]
    /\ results_data = json.data
    /\ page.metrics = None
    /\ page.image = "shown"

\* the other half: the image is missing
C9_WitnessNotFound ==
    /\ Selected
    /\ json.kind = "ok" /\ "results" \in DOMAIN json.data
    /\ results_data = json.data
    /\ Matches(results_data, selected_file) = {}
    /\ page.image = "not_found"

IsDigit(c) == c \in {"0", "1", "2", "3", "4", "5", "6", "7", "8", "9"}
DigitVal(c) == CHOOSE d \in 0..9 : DigitChar(d) = c
\* the number a digit string denotes, the decimal point skipped
RECURSIVE DecVal(_)
DecVal(s) ==
    IF s = <<>> THEN 0
    ELSE IF s[Len(s)] = "." THEN DecVal(Front(s))
    ELSE 10 * DecVal(Front(s)) + DigitVal(s[Len(s)])
Abs(n) == IF n < 0 THEN -n ELSE n

\* s is a fixed-point numeral with exactly k decimals, and (for values whose
\* denominator keeps the products in range) it is within half a unit of the
\* last place of v
FixedPoint(s, v, k) ==
    /\ Len(s) >= k + 2
    /\ s[Len(s) - k] = "."
    /\ \A i \in DOMAIN s : i # Len(s) - k => IsDigit(s[i])
    /\ (Len(s) > k + 2) => s[1] # "0"
    /\ v.den <= 1000 => 2 * Abs(DecVal(s) * v.den - v.num * Pow10(k)) <= v.den

\* s is the decimal numeral of n, without leading zeros
Numeral(s, n) ==
    /\ s # <<>>
    /\ \A i \in DOMAIN s : IsDigit(s[i])
    /\ (Len(s) > 1) => s[1] # "0"
    /\ DecVal(s) = n

\* C10: precision, recall and f1 of the matched record are shown in fixed
\* point with 4 decimals in the summary and 6 in the details (0.123456 as
\* 0.1235 and 0.123456, 0.9 as 0.9000), the threshold t as "t" + "th" and
\* "t" + "th percentile", num_anomalies as the integer itself, 0 when the
\* record has no such key.
C10_MetricFormatting ==
    (Selected /\ file_result # None) =>
        LET r == file_result
            m == page.metrics
            d == page.details
        IN /\ FixedPoint(m.Precision, r.precision, 4)
           /\ FixedPoint(m.Recall, r.recall, 4)
           /\ FixedPoint(m.F1Score, r.f1, 4)
           /\ FixedPoint(d.Precision, r.precision, 6)
           /\ FixedPoint(d.Recall, r.recall, 6)
           /\ FixedPoint(d.F1Score, r.f1, 6)
           /\ r.precision = Rat(123456, 1000000) =>
                 /\ m.Precision = <<"0", ".", "1", "2", "3", "5">>
                 /\ d.Precision = <<"0", ".", "1", "2", "3", "4", "5", "6">>
           /\ r.precision = Rat(9, 10) => m.Precision = <<"0", ".", "9", "0", "0", "0">>
           /\ r.f1 = Rat(999995, 1000000) =>
                 /\ m.F1Score = <<"1", ".", "0", "0", "0", "0">>
                 /\ d.F1Score = <<"0", ".", "9", "9", "9", "9", "9", "5">>
           /\ Len(m.BestThreshold) > 2
           /\ Numeral(SubSeq(m.BestThreshold, 1, Len(m.BestThreshold) - 2),
                      r.best_threshold)
           /\ SubSeq(m.BestThreshold, Len(m.BestThreshold) - 1,
                     Len(m.BestThreshold)) = <<"t", "h">>
           /\ d.BestThreshold = m.BestThreshold \o PERCENTILE
           /\ m.DetectedAnomalies =
                 (IF "num_anomalies" \in DOMAIN r THEN r.num_anomalies ELSE 0)

\* a record without 'num_anomalies' whose precision 1/32 = 0.03125 is a tie
\* at 4 decimals
C10_Witness ==
    /\ Selected
    /\ file_result # None
    /\ "num_anomalies" \notin DOMAIN file_result
    /\ file_result.precision = Rat(1, 32)
    /\ page.metrics.Precision = <<"0", ".", "0", "3", "1", "2">>
    /\ page.metrics.DetectedAnomalies = 0

====
